---- MODULE Spec2Model ----
(***************************************************************************)
(* Koppen climate classifier of MeteostatClimateMapper                     *)
(* (src/climate_classifier.py).                                            *)
(*                                                                         *)
(* A DataFrame of monthly normals is a function from its index (month      *)
(* numbers) to rows [tavg, prcp].  A float64 value is an exact rational    *)
(* n/d with d > 0; NaN is the value with d = 0.  Comparisons with NaN are  *)
(* false and the pandas reductions skip NaN, as in pandas.  On the records *)
(* of this model (whole degrees and millimetres) float64 rounding changes  *)
(* no comparison of the classifier, so exact arithmetic gives its results. *)
(***************************************************************************)
EXTENDS Integers, Sequences, FiniteSets, TLC

VARIABLES
    data,       \* the normals DataFrame handed to the classifier
    args,       \* keyword arguments of the call: isotherm given or omitted
    pc,         \* "ready" before the call, "done" after it returned
    caller,     \* which entry point ran
    locals,     \* the classifier's local variables at its return statement
    result,     \* what the call returned or raised
    session_state,       \* st.session_state of the map application
    station_key_to_use,  \* main's local of the last script run
    data_key_to_use,     \* main's local, as handed to render_map
    clear_map,           \* whether Clear Map was pressed for the last run
    fetched,             \* station id -> outcome of its fetch in the last run
    classifier_calls,    \* the stations the last run classified
                         \* (a run is a script run or a run of the fragment)
    fg,                  \* the markers of the feature group on the map
    shown,               \* what render_map found for the clicked marker
    error                \* the exception that ended the last run, if any

classifier_vars == <<data, args, pc, caller, locals, result>>

app_vars == <<session_state, station_key_to_use, data_key_to_use, clear_map,
              fetched, classifier_calls, fg, shown, error>>

vars == <<data, args, pc, caller, locals, result,
          session_state, station_key_to_use, data_key_to_use, clear_map,
          fetched, classifier_calls, fg, shown, error>>

-----------------------------------------------------------------------------
(* float64 arithmetic, exact *)

Num(v) == [n |-> v, d |-> 1]
NaN == [n |-> 0, d |-> 0]
IsNaN(x) == x.d = 0

Lt(a, b) == ~IsNaN(a) /\ ~IsNaN(b) /\ a.n * b.d < b.n * a.d
Ge(a, b) == ~IsNaN(a) /\ ~IsNaN(b) /\ a.n * b.d >= b.n * a.d
Gt(a, b) == ~IsNaN(a) /\ ~IsNaN(b) /\ a.n * b.d > b.n * a.d
Le(a, b) == ~IsNaN(a) /\ ~IsNaN(b) /\ a.n * b.d <= b.n * a.d

Plus(a, b) ==
    IF IsNaN(a) \/ IsNaN(b) THEN NaN
    ELSE [n |-> a.n * b.d + b.n * a.d, d |-> a.d * b.d]

Minus(a, b) ==
    IF IsNaN(a) \/ IsNaN(b) THEN NaN
    ELSE [n |-> a.n * b.d - b.n * a.d, d |-> a.d * b.d]

Times(a, b) ==
    IF IsNaN(a) \/ IsNaN(b) THEN NaN
    ELSE [n |-> a.n * b.n, d |-> a.d * b.d]

\* a / k for a positive integer k
DivBy(a, k) == IF IsNaN(a) THEN NaN ELSE [n |-> a.n, d |-> a.d * k]

-----------------------------------------------------------------------------
(* pandas: row selection, columns and the reductions (skipna = True) *)

\* data[data.index.isin(months)]
isin(df, months) == [m \in (DOMAIN df) \cap months |-> df[m]]

\* df["tavg"], df["prcp"]
column(df, c) == [m \in DOMAIN df |-> df[m][c]]

notna(s) == {m \in DOMAIN s : ~IsNaN(s[m])}

RECURSIVE sum_over(_, _)
sum_over(s, idx) ==
    IF idx = {} THEN Num(0)
    ELSE LET m == CHOOSE x \in idx : TRUE
         IN  Plus(s[m], sum_over(s, idx \ {m}))

\* Series.sum(): NaN skipped, 0 when nothing is left
series_sum(s) == sum_over(s, notna(s))

\* the values of a Series that are not NaN
dropna(s) == {s[m] : m \in notna(s)}

\* Series.min(): NaN skipped, NaN when nothing is left
series_min(s) ==
    IF dropna(s) = {} THEN NaN
    ELSE CHOOSE x \in dropna(s) : \A y \in dropna(s) : Le(x, y)

\* Series.max()
series_max(s) ==
    IF dropna(s) = {} THEN NaN
    ELSE CHOOSE x \in dropna(s) : \A y \in dropna(s) : Ge(x, y)

\* Series.mean()
series_mean(s) ==
    IF notna(s) = {} THEN NaN
    ELSE DivBy(series_sum(s), Cardinality(notna(s)))

\* Series.gt(v).sum(): NaN > v is False
gt_count(s, v) == Cardinality({m \in DOMAIN s : Gt(s[m], v)})

-----------------------------------------------------------------------------
(* calculate_koppen_climate_from_normals, block by block *)

min_monthly_temp(df) == series_min(column(df, "tavg"))
avg_monthly_temp(df) == series_mean(column(df, "tavg"))
max_monthly_temp(df) == series_max(column(df, "tavg"))
yearly_prcp(df) == series_sum(column(df, "prcp"))

northern_summer_months == {4, 5, 6, 7, 8, 9}
northern_winter_months == {1, 2, 3, 10, 11, 12}

northern_summer_mean(df) == series_mean(column(isin(df, northern_summer_months), "tavg"))
northern_winter_mean(df) == series_mean(column(isin(df, northern_winter_months), "tavg"))

\* mutant: a tie of the means goes to the northern winter months
summer_months_tie_to_winter(ns_mean, nw_mean) ==
    IF Gt(ns_mean, nw_mean) THEN northern_summer_months ELSE northern_winter_months

\* which period is actually summer, from the two means
summer_months(ns_mean, nw_mean) ==
    IF Ge(ns_mean, nw_mean) THEN northern_summer_months ELSE northern_winter_months

winter_months(ns_mean, nw_mean) ==
    IF Ge(ns_mean, nw_mean) THEN northern_winter_months ELSE northern_summer_months

\* mutant: winter precipitation of exactly 70% still earns the +140
prcp_threshold_winter_inclusive(avg_temp, summer_prcp, winter_prcp, yearly) ==
    IF Ge(summer_prcp, Times([n |-> 7, d |-> 10], yearly))
    THEN Plus(Times(Num(20), avg_temp), Num(280))
    ELSE IF Le(winter_prcp, Times([n |-> 7, d |-> 10], yearly))
    THEN Plus(Times(Num(20), avg_temp), Num(140))
    ELSE Times(Num(20), avg_temp)

\* the precipitation threshold that arid climates must lie under
prcp_threshold(avg_temp, summer_prcp, winter_prcp, yearly) ==
    IF Ge(summer_prcp, Times([n |-> 7, d |-> 10], yearly))
    THEN Plus(Times(Num(20), avg_temp), Num(280))
    ELSE IF Lt(winter_prcp, Times([n |-> 7, d |-> 10], yearly))
    THEN Plus(Times(Num(20), avg_temp), Num(140))
    ELSE Times(Num(20), avg_temp)

\* mutant: the arid test comes before the polar test
climate_type_arid_first(max_temp, yearly, threshold, min_temp) ==
    IF Lt(yearly, threshold) THEN "arid"
    ELSE IF Lt(max_temp, Num(10)) THEN "polar"
    ELSE IF Ge(min_temp, Num(18)) THEN "tropical"
    ELSE "temperate"

\* the if / elif chain over the climate types: which step's branch is taken
climate_type(max_temp, yearly, threshold, min_temp) ==
    IF Lt(max_temp, Num(10)) THEN "polar"
    ELSE IF Lt(yearly, threshold) THEN "arid"
    ELSE IF Ge(min_temp, Num(18)) THEN "tropical"
    ELSE "temperate"

\* mutant: a warmest month of exactly 0 counts as ice cap
polar_labels_zero_is_ice_cap(max_temp) ==
    [primary   |-> <<"E">>,
     secondary |-> IF Gt(max_temp, Num(0)) THEN <<"T">> ELSE <<"F">>,
     tertiary  |-> <<>>]

\* Step 1: polar climates (E)
polar_labels(max_temp) ==
    [primary   |-> <<"E">>,
     secondary |-> IF Ge(max_temp, Num(0)) THEN <<"T">> ELSE <<"F">>,
     tertiary  |-> <<>>]

\* mutant: exactly half the threshold is still desert
arid_labels_half_inclusive(yearly, threshold, avg_temp) ==
    [primary   |-> <<"B">>,
     secondary |-> IF Le(yearly, DivBy(threshold, 2)) THEN <<"W">> ELSE <<"S">>,
     tertiary  |-> IF Ge(avg_temp, Num(18)) THEN <<"h">> ELSE <<"k">>]

\* Step 2: arid climates (B)
arid_labels(yearly, threshold, avg_temp) ==
    [primary   |-> <<"B">>,
     secondary |-> IF Lt(yearly, DivBy(threshold, 2)) THEN <<"W">> ELSE <<"S">>,
     tertiary  |-> IF Ge(avg_temp, Num(18)) THEN <<"h">> ELSE <<"k">>]

\* mutant: a driest month of exactly 60 is no rainforest
tropical_labels_above_60(min_monthly_prcp, yearly) ==
    [primary   |-> <<"A">>,
     secondary |-> IF Gt(min_monthly_prcp, Num(60)) THEN <<"f">>
                   ELSE IF Ge(min_monthly_prcp,
                              Minus(Num(100), Times([n |-> 4, d |-> 100], yearly)))
                   THEN <<"m">>
                   ELSE <<"w">>,
     tertiary  |-> <<>>]

\* Step 3: tropical climates (A)
tropical_labels(min_monthly_prcp, yearly) ==
    [primary   |-> <<"A">>,
     secondary |-> IF Ge(min_monthly_prcp, Num(60)) THEN <<"f">>
                   ELSE IF Ge(min_monthly_prcp,
                              Minus(Num(100), Times([n |-> 4, d |-> 100], yearly)))
                   THEN <<"m">>
                   ELSE <<"w">>,
     tertiary  |-> <<>>]

\* mutant: a coldest month exactly on the isotherm is continental
temperate_primary_label_strict(min_temp, isotherm) ==
    IF Gt(min_temp, Num(isotherm)) THEN <<"C">> ELSE <<"D">>

\* Step 4: "C" if min_monthly_temp >= isotherm else "D"
temperate_primary_label(min_temp, isotherm) ==
    IF Ge(min_temp, Num(isotherm)) THEN <<"C">> ELSE <<"D">>

\* mutant: the dry summer test comes before the dry winter test
dry_season_label_summer_first(driest_summer_month, wettest_summer_month, driest_winter_month, wettest_winter_month, primary_label) ==
    IF /\ Ge(wettest_winter_month, Times(Num(3), driest_summer_month))
       /\ Lt(driest_summer_month, Num(IF primary_label = <<"C">> THEN 40 ELSE 30))
    THEN <<"s">>
    ELSE IF Ge(wettest_summer_month, Times(Num(10), driest_winter_month))
    THEN <<"w">>
    ELSE <<"f">>

\* the dry season label of a C or D climate
dry_season_label(driest_summer_month, wettest_summer_month, driest_winter_month, wettest_winter_month, primary_label) ==
    IF Ge(wettest_summer_month, Times(Num(10), driest_winter_month))
    THEN <<"w">>
    ELSE IF /\ Ge(wettest_winter_month, Times(Num(3), driest_summer_month))
            /\ Lt(driest_summer_month, Num(IF primary_label = <<"C">> THEN 40 ELSE 30))
    THEN <<"s">>
    ELSE <<"f">>

\* mutant: more than 4 months above 10 are asked for
temperature_label_more_than_4(months_above_10, max_temp, min_temp) ==
    IF months_above_10 > 4
    THEN IF Ge(max_temp, Num(22)) THEN <<"a">> ELSE <<"b">>
    ELSE IF Le(min_temp, Num(-38)) THEN <<"d">>
    ELSE <<"c">>

\* the temperature label of a C or D climate
temperature_label(months_above_10, max_temp, min_temp) ==
    IF months_above_10 >= 4
    THEN IF Ge(max_temp, Num(22)) THEN <<"a">> ELSE <<"b">>
    ELSE IF Le(min_temp, Num(-38)) THEN <<"d">>
    ELSE <<"c">>

\* the local variables of the function when it reaches its return statement;
\* a branch's own locals exist only when that branch ran
classifier_frame(df, isotherm) ==
    LET min_temp == min_monthly_temp(df)
        avg_temp == avg_monthly_temp(df)
        max_temp == max_monthly_temp(df)
        yearly == yearly_prcp(df)
        ns_mean == northern_summer_mean(df)
        nw_mean == northern_winter_mean(df)
        summer == summer_months(ns_mean, nw_mean)
        winter == winter_months(ns_mean, nw_mean)
        summer_data == isin(df, summer)
        winter_data == isin(df, winter)
        summer_prcp == series_sum(column(summer_data, "prcp"))
        winter_prcp == series_sum(column(winter_data, "prcp"))
        threshold == prcp_threshold(avg_temp, summer_prcp, winter_prcp, yearly)
        type == climate_type(max_temp, yearly, threshold, min_temp)
        min_monthly_prcp == series_min(column(df, "prcp"))
        driest_summer_month == series_min(column(summer_data, "prcp"))
        wettest_summer_month == series_max(column(summer_data, "prcp"))
        driest_winter_month == series_min(column(winter_data, "prcp"))
        wettest_winter_month == series_max(column(winter_data, "prcp"))
        label ==
            CASE type = "polar" -> polar_labels(max_temp)
              [] type = "arid" -> arid_labels(yearly, threshold, avg_temp)
              [] type = "tropical" -> tropical_labels(min_monthly_prcp, yearly)
              [] type = "temperate" ->
                    [primary   |-> temperate_primary_label(min_temp, isotherm),
                     secondary |-> dry_season_label(
                                       driest_summer_month, wettest_summer_month,
                                       driest_winter_month, wettest_winter_month,
                                       temperate_primary_label(min_temp, isotherm)),
                     tertiary  |-> temperature_label(
                                       gt_count(column(df, "tavg"), Num(10)),
                                       max_temp, min_temp)]
        branch_locals ==
            CASE type = "tropical" -> [min_monthly_prcp |-> min_monthly_prcp]
              [] type = "temperate" ->
                    [driest_summer_month  |-> driest_summer_month,
                     wettest_summer_month |-> wettest_summer_month,
                     driest_winter_month  |-> driest_winter_month,
                     wettest_winter_month |-> wettest_winter_month]
              [] OTHER -> <<>>
    IN  branch_locals @@
        [min_monthly_temp       |-> min_temp,
         avg_monthly_temp       |-> avg_temp,
         max_monthly_temp       |-> max_temp,
         yearly_prcp            |-> yearly,
         summer_months          |-> summer,
         winter_months          |-> winter,
         summer_prcp            |-> summer_prcp,
         winter_prcp            |-> winter_prcp,
         prcp_threshold         |-> threshold,
         primary_label          |-> label.primary,
         secondary_label        |-> label.secondary,
         tertiary_label         |-> label.tertiary,
         climate_classification |-> label.primary \o label.secondary \o label.tertiary]

\* mutant: the threshold is reported before its seasonal adjustment
returned_series_unadjusted_threshold(frame) ==
    [status                  |-> "returned",
     koppen                  |-> frame.climate_classification,
     min_monthly_temp        |-> frame.min_monthly_temp,
     avg_monthly_temp        |-> frame.avg_monthly_temp,
     max_monthly_temp        |-> frame.max_monthly_temp,
     precipitation_threshold |-> Times(Num(20), frame.avg_monthly_temp),
     yearly_precipitation    |-> frame.yearly_prcp]

\* the pd.Series built by the return statement
returned_series(frame) ==
    [status                  |-> "returned",
     koppen                  |-> frame.climate_classification,
     min_monthly_temp        |-> frame.min_monthly_temp,
     avg_monthly_temp        |-> frame.avg_monthly_temp,
     max_monthly_temp        |-> frame.max_monthly_temp,
     precipitation_threshold |-> frame.prcp_threshold,
     yearly_precipitation    |-> frame.yearly_prcp]

calculate_koppen_climate_from_normals(df, isotherm) ==
    returned_series(classifier_frame(df, isotherm))

\* binding of the keyword parameter isotherm: int = 0
isotherm_param(kwargs) ==
    IF \E a \in kwargs : a[1] = "isotherm"
    THEN (CHOOSE a \in kwargs : a[1] = "isotherm")[2]
    ELSE 0

-----------------------------------------------------------------------------
(* calculate_koppen_climate: fetch the nearest station's latest normal and *)
(* classify it as it comes.  get_latest_normal raises ValueError when no   *)
(* nearby station has normals; otherwise the station's name and id are     *)
(* appended to the classifier's Series.                                    *)

station_fields(series) ==
    [f \in {"target_location", "nearest_station_id", "nearest_station_name"} |-> f]
        @@ series

-----------------------------------------------------------------------------
(* The inputs.  A record has one temperature and one precipitation         *)
(* profile; a profile takes one value on a window of months and another    *)
(* value elsewhere.  The windows put the warm or wet months in either      *)
(* candidate season, and the values sit on and beside every threshold of   *)
(* the classifier.                                                         *)

Months == 1..12

TempVals == {-38, -10, -3, 0, 9, 10, 17, 18, 22, 25}
TempWindows == {{5, 6, 7, 8}, {12, 1, 2}}

PrcpVals == {0, 10, 29, 30, 39, 40, 59, 60, 100, 210}
PrcpWindows == {{4, 5, 6, 7, 8, 9}, {5, 6, 7, 8}}

IsothermVals == {0, -3}

\* how many rows or values a record may miss, and where
MaxMissing == 1
GapMonths == {1, 7}
GapTempVals == {-10, 10, 25}
GapPrcpVals == {0, 60}

Profile(window, inside, outside) ==
    [m \in Months |-> IF m \in window THEN inside ELSE outside]

TempPairs == {hl \in TempVals \X TempVals : hl[2] <= hl[1]}

TempProfiles == {Profile(w, hl[1], hl[2]) : w \in TempWindows, hl \in TempPairs}

PrcpProfiles ==
    {Profile(w, a, b) : w \in PrcpWindows, a \in PrcpVals, b \in PrcpVals}

Normals(T, P) == [m \in Months |-> [tavg |-> Num(T[m]), prcp |-> Num(P[m])]]

Kwargs == {{}} \cup {{<<"isotherm", v>>} : v \in IsothermVals}

\* what the data provider left out of a record: a whole row, or one value
Gaps == {"row", "tavg", "prcp"} \X GapMonths

GapSets == {g \in SUBSET Gaps : Cardinality(g) <= MaxMissing}

WithGaps(df, gaps) ==
    [m \in {x \in DOMAIN df : <<"row", x>> \notin gaps} |->
        [tavg |-> IF <<"tavg", m>> \in gaps THEN NaN ELSE df[m].tavg,
         prcp |-> IF <<"prcp", m>> \in gaps THEN NaN ELSE df[m].prcp]]

\* the records that also come with gaps
GapTempProfiles ==
    {Profile(w, hl[1], hl[2]) : w \in TempWindows,
                                hl \in {x \in TempPairs : x[1] \in GapTempVals /\ x[2] \in GapTempVals}}
GapPrcpProfiles ==
    {Profile(w, a, b) : w \in PrcpWindows, a \in GapPrcpVals, b \in GapPrcpVals}

-----------------------------------------------------------------------------

\* the map application before its first script run
NoData == [rows |-> <<>>, source |-> "None"]

AppIdle ==
    /\ session_state = <<>>
    /\ station_key_to_use = "None"
    /\ data_key_to_use = "None"
    /\ clear_map = FALSE
    /\ fetched = <<>>
    /\ classifier_calls = {}
    /\ fg = {}
    /\ shown = NoData
    /\ error = "None"

Init ==
    /\ AppIdle
    /\ \E T \in TempProfiles, P \in PrcpProfiles, gaps \in GapSets :
         /\ gaps # {} => T \in GapTempProfiles /\ P \in GapPrcpProfiles
         /\ data = WithGaps(Normals(T, P), gaps)
    /\ args \in Kwargs
    /\ pc = "ready"
    /\ caller = "none"
    /\ locals = <<>>
    /\ result = [status |-> "none"]

\* a direct call calculate_koppen_climate_from_normals(data[, isotherm])
CallFromNormals ==
    /\ pc = "ready"
    /\ LET frame == classifier_frame(data, isotherm_param(args))
       IN  /\ locals' = frame
           /\ result' = returned_series(frame)
    /\ caller' = "calculate_koppen_climate_from_normals"
    /\ pc' = "done"
    /\ UNCHANGED <<data, args>>
    /\ UNCHANGED app_vars

\* calculate_koppen_climate(name, point[, isotherm]) when a station is found
CallKoppenClimate ==
    /\ pc = "ready"
    /\ LET frame == classifier_frame(data, isotherm_param(args))
       IN  /\ locals' = frame
           /\ result' = station_fields(returned_series(frame))
    /\ caller' = "calculate_koppen_climate"
    /\ pc' = "done"
    /\ UNCHANGED <<data, args>>
    /\ UNCHANGED app_vars

\* calculate_koppen_climate when no nearby station has normals
CallKoppenClimateNoStation ==
    /\ pc = "ready"
    /\ result' = [status |-> "raised", error |-> "ValueError"]
    /\ caller' = "calculate_koppen_climate"
    /\ pc' = "done"
    /\ UNCHANGED <<data, args, locals>>
    /\ UNCHANGED app_vars

Next == CallFromNormals \/ CallKoppenClimate \/ CallKoppenClimateNoStation

Spec == Init /\ [][Next]_vars

-----------------------------------------------------------------------------
(* The map application (src/main.py, src/meteostat_functions.py).          *)
(*                                                                         *)
(* A dict is a function; the empty dict is <<>>.  A station dictionary     *)
(* maps station ids to a marker or to NoMarker (None); a data dictionary   *)
(* maps (latitude, longitude) to the stored normals.  Stored normals keep  *)
(* their rows and the name of the fetch function that returned them.       *)

MAP_KEY == "m"
STATIONS_KEY == "stations"
CUSTOM_DATE_RANGE_STATIONS_KEY == "custom_date_range_stations"

\* station_key + "-data"
data_key(station_key) ==
    IF station_key = STATIONS_KEY THEN "stations-data"
    ELSE "custom_date_range_stations-data"

\* key None of KOPPEN_COLOURS
NoneKey == <<>>

KOPPEN_COLOURS ==
    (<<"A", "f">> :> "#00FF00") @@ (<<"A", "m">> :> "#007F00") @@
    (<<"A", "w">> :> "#00AA00") @@
    (<<"B", "W", "h">> :> "#FF0000") @@ (<<"B", "W", "k">> :> "#FF7F7F") @@
    (<<"B", "S", "h">> :> "#FFA500") @@ (<<"B", "S", "k">> :> "#FFD37F") @@
    (<<"C", "s", "a">> :> "#FFEE00") @@ (<<"C", "s", "b">> :> "#D0D000") @@
    (<<"C", "s", "c">> :> "#A0A000") @@
    (<<"C", "w", "a">> :> "#FFFF00") @@ (<<"C", "w", "b">> :> "#E0E000") @@
    (<<"C", "w", "c">> :> "#C0C000") @@
    (<<"C", "f", "a">> :> "#B2FF4D") @@ (<<"C", "f", "b">> :> "#66FF33") @@
    (<<"C", "f", "c">> :> "#33CC00") @@
    (<<"D", "s", "a">> :> "#4DA6FF") @@ (<<"D", "s", "b">> :> "#1A75FF") @@
    (<<"D", "s", "c">> :> "#005CE6") @@
    (<<"D", "w", "a">> :> "#99CCFF") @@ (<<"D", "w", "b">> :> "#6699FF") @@
    (<<"D", "w", "c">> :> "#3366FF") @@
    (<<"D", "f", "a">> :> "#00BFFF") @@ (<<"D", "f", "b">> :> "#0080FF") @@
    (<<"D", "f", "c">> :> "#004C99") @@
    (<<"E", "T">> :> "#FFFFFF") @@ (<<"E", "F">> :> "#888888") @@
    (NoneKey :> "#CCCCCC")

\* the rows of Stations().bounds(...).fetch(...): the stations of the map
\* section, each with its coordinates
StationIds == {"10338"}

station_row(station_id) ==
    [name |-> "Hannover", latitude |-> 52, longitude |-> 10]

location(station_id) ==
    <<station_row(station_id).latitude, station_row(station_id).longitude>>

\* the orders in which fetch_stations can list stations of the map section
StationLists ==
    {<<>>} \cup {<<a>> : a \in StationIds}
           \cup {<<p[1], p[2]>> : p \in {q \in StationIds \X StationIds : q[1] # q[2]}}

\* what the data provider can answer for a station: nothing, an error, or a
\* frame of normals (complete, incomplete, or of a very cold winter)
oceanic == Normals(Profile({5, 6, 7, 8}, 17, 9), Profile({5, 6, 7, 8}, 60, 60))
very_cold_winter ==
    Normals(Profile({12, 1, 2}, 17, -38), Profile({5, 6, 7, 8}, 30, 30))

ProviderFrames ==
    {oceanic, very_cold_winter,
     WithGaps(oceanic, {<<"row", 7>>}),
     WithGaps(oceanic, {<<"prcp", 1>>}),
     WithGaps(very_cold_winter, {<<"tavg", 1>>})}

Responses ==
    {[status |-> "empty", rows |-> <<>>], [status |-> "raised", rows |-> <<>>]}
        \cup {[status |-> "returned", rows |-> f] : f \in ProviderFrames}

\* lines 93-95: calculate_koppen_climate_from_normals(normals), with the
\* default isotherm, for each frame the provider can return
koppen_of_normals ==
    [rows \in ProviderFrames |->
        calculate_koppen_climate_from_normals(rows, isotherm_param({}))]

NoMarker == [location |-> <<>>, popup |-> <<>>, background_color |-> "None"]

\* lines 57-75: the fetch of one station; normals stay None when the fetch
\* returns nothing or raises
fetch_normals(response, use_custom_date_range) ==
    IF response.status = "returned"
    THEN [rows   |-> response.rows,
          source |-> IF use_custom_date_range THEN "get_monthly_as_normal"
                     ELSE "get_latest_normal_by_station_id"]
    ELSE NoData

\* mutant: the row count is not checked
has_full_tavg_and_prcp_any_length(rows) ==
    ~ \E m \in DOMAIN rows : IsNaN(rows[m].tavg) \/ IsNaN(rows[m].prcp)

\* lines 89-92: the condition under which Koppen is calculated
has_full_tavg_and_prcp(rows) ==
    /\ ~ \E m \in DOMAIN rows : IsNaN(rows[m].tavg) \/ IsNaN(rows[m].prcp)
    /\ Cardinality(DOMAIN rows) = 12

\* mutant: a station recorded with None counts as not yet added
already_added_with_marker(marker_array, station_id) ==
    station_id \in DOMAIN marker_array /\ marker_array[station_id] # NoMarker

\* line 54: station_id in marker_array
already_added(marker_array, station_id) == station_id \in DOMAIN marker_array

\* the body of the loop of update_markers for one station; call holds the
\* two dictionaries and what the call did so far
update_station(call, station_id, response, use_custom_date_range) ==
    IF already_added(call.marker_array, station_id) THEN call
    ELSE
    LET normals == fetch_normals(response, use_custom_date_range)
        did == [call EXCEPT !.fetched = (station_id :> response.status) @@ @]
    IN
    IF normals = NoData
    THEN [did EXCEPT !.marker_array = (station_id :> NoMarker) @@ @]
    ELSE
    LET stored == [did EXCEPT
                     !.data_array = (location(station_id) :> normals) @@ @]
        marker(popup, color) ==
            [location |-> location(station_id), popup |-> popup,
             background_color |-> color]
        name_line == <<station_row(station_id).name>>
    IN
    IF ~has_full_tavg_and_prcp(normals.rows)
    THEN [stored EXCEPT !.marker_array =
            (station_id :> marker(name_line, KOPPEN_COLOURS[NoneKey])) @@ @]
    ELSE
    LET koppen == koppen_of_normals[normals.rows]
        climate == koppen.koppen
        classified == [stored EXCEPT !.classifier_calls = @ \cup {station_id}]
    IN
    IF climate \notin DOMAIN KOPPEN_COLOURS
    THEN [classified EXCEPT !.error = "KeyError"]
    ELSE [classified EXCEPT !.marker_array =
            (station_id :> marker(name_line \o <<climate>>,
                                  KOPPEN_COLOURS[climate])) @@ @]

\* update_markers(marker_array, data_array, bounds): the loop over the
\* stations of the map section; an exception ends it
RECURSIVE update_markers_loop(_, _, _, _)
update_markers_loop(call, stations, responses, use_custom_date_range) ==
    IF stations = <<>> \/ call.error # "None" THEN call
    ELSE update_markers_loop(
             update_station(call, Head(stations), responses[Head(stations)],
                            use_custom_date_range),
             Tail(stations), responses, use_custom_date_range)

no_call(marker_array, data_array) ==
    [marker_array |-> marker_array, data_array |-> data_array,
     fetched |-> <<>>, classifier_calls |-> {}, error |-> "None"]

update_markers(marker_array, data_array, stations, responses, use_custom_date_range) ==
    update_markers_loop(no_call(marker_array, data_array), stations, responses,
                        use_custom_date_range)

\* lines 183-191 of render_map: the frame of the last clicked marker
clicked_frame(state, key) ==
    IF state[MAP_KEY].last_object_clicked = <<>> THEN NoData
    ELSE IF state[MAP_KEY].last_object_clicked \in DOMAIN state[key]
    THEN state[key][state[MAP_KEY].last_object_clicked]
    ELSE [rows |-> <<>>, source |-> "KeyError"]

\* the KeyError of line 190 when the clicked location has no entry
lookup_error(frame) == IF frame.source = "KeyError" THEN "KeyError" ELSE "None"

\* lines 146-151: the markers added to the feature group
feature_group(marker_array) ==
    {marker_array[s] : s \in {x \in DOMAIN marker_array : marker_array[x] # NoMarker}}

AppInit ==
    /\ AppIdle
    /\ data = <<>>
    /\ args = {}
    /\ pc = "app"
    /\ caller = "none"
    /\ locals = <<>>
    /\ result = [status |-> "none"]

\* the inputs that a script run reads: in the first run of a session the
\* toggle has its default value=False and no button was pressed; a run without
\* the map in the session state always queries and has no earlier click; a run
\* that does not query fetches no station list
WidgetChoices(state) ==
    IF "use_custom_date_range" \in DOMAIN state THEN BOOLEAN ELSE {FALSE}

UpdateChoices(state) == IF MAP_KEY \in DOMAIN state THEN BOOLEAN ELSE {TRUE}

ListsFor(state, update_wanted) ==
    IF MAP_KEY \notin DOMAIN state \/ update_wanted THEN StationLists ELSE {<<>>}

ClickChoices(state) ==
    IF MAP_KEY \in DOMAIN state /\ state[MAP_KEY].last_object_clicked # <<>>
    THEN BOOLEAN ELSE {TRUE}

\* lines 113-127 of main: the keys of this pass, the dictionaries made on
\* first use, and the Clear Map button.  data_key_to_use is built in line 115
\* from the key that line 114 assigned, before lines 116-117 switch the key.
station_key_of(use_custom_date_range) ==
    IF use_custom_date_range THEN CUSTOM_DATE_RANGE_STATIONS_KEY ELSE STATIONS_KEY

data_key_of(use_custom_date_range) == data_key(STATIONS_KEY)

initialised(state, station_key, key) ==
    IF station_key \notin DOMAIN state
    THEN (station_key :> <<>>) @@ (key :> <<>>) @@ state
    ELSE state

cleared(state, station_key, pressed) ==
    IF pressed THEN [state EXCEPT ![station_key] = <<>>] ELSE state

\* lines 130-143: the query for new stations
queried(state, station_key, key, update_wanted, stations, responses) ==
    IF MAP_KEY \notin DOMAIN state \/ update_wanted
    THEN update_markers(state[station_key], state[key], stations, responses,
                        state["use_custom_date_range"])
    ELSE no_call(state[station_key], state[key])

\* the dictionaries are changed in place
updated(state, station_key, key, call) ==
    [state EXCEPT ![station_key] = call.marker_array, ![key] = call.data_array]

\* st_folium under key MAP_KEY: the component's value is in the session state
\* once the map is rendered
rendered(state, click_kept) ==
    (MAP_KEY :> [last_object_clicked |->
                    IF MAP_KEY \in DOMAIN state /\ click_kept
                    THEN state[MAP_KEY].last_object_clicked ELSE <<>>])
        @@ state

\* one script run of main(): the widgets give the toggle, the Clear Map
\* button and whether to query; the provider gives the stations of the map
\* section and their data.  The map component keeps or drops its last click.
\* An exception in update_markers ends the run before the map is rendered.
Rerun ==
    /\ pc = "app"
    /\ \E use_custom_date_range \in WidgetChoices(session_state),
          pressed \in WidgetChoices(session_state),
          update_wanted \in UpdateChoices(session_state) :
       \E stations \in ListsFor(session_state, update_wanted),
          click_kept \in ClickChoices(session_state) :
       \E responses \in [{stations[i] : i \in DOMAIN stations} -> Responses],
          station_key \in {station_key_of(use_custom_date_range)},
          key \in {data_key_of(use_custom_date_range)} :
       \E before \in {cleared(initialised(
                          ("use_custom_date_range" :> use_custom_date_range)
                              @@ session_state, station_key, key),
                          station_key, pressed)} :
       \E call \in {queried(before, station_key, key, update_wanted, stations,
                            responses)} :
       \E after \in {updated(before, station_key, key, call)} :
          /\ station_key_to_use' = station_key
          /\ data_key_to_use' = key
          /\ clear_map' = pressed
          /\ fetched' = call.fetched
          /\ classifier_calls' = call.classifier_calls
          /\ IF call.error # "None"
             THEN /\ session_state' = after
                  /\ fg' = {}
                  /\ shown' = NoData
                  /\ error' = call.error
             ELSE \E on_map \in {rendered(after, click_kept)} :
                  /\ session_state' = on_map
                  /\ fg' = feature_group(on_map[station_key])
                  /\ shown' = clicked_frame(on_map, key)
                  /\ error' = lookup_error(clicked_frame(on_map, key))
    /\ UNCHANGED classifier_vars

\* a click on a marker of the map: the component records the location and
\* the fragment render_map runs again with the arguments of the last run
ClickMarker ==
    /\ pc = "app"
    /\ MAP_KEY \in DOMAIN session_state
    /\ \E marker \in fg :
        LET clicked == [session_state EXCEPT
                          ![MAP_KEY].last_object_clicked = marker.location]
        IN  /\ session_state' = clicked
            /\ shown' = clicked_frame(clicked, data_key_to_use)
            /\ error' = lookup_error(clicked_frame(clicked, data_key_to_use))
    /\ fetched' = <<>>
    /\ classifier_calls' = {}
    /\ UNCHANGED <<station_key_to_use, data_key_to_use, clear_map, fg>>
    /\ UNCHANGED classifier_vars

AppNext == Rerun \/ ClickMarker

AppSpec == AppInit /\ [][AppNext]_vars

-----------------------------------------------------------------------------
(* The properties.  They are stated on the record itself, in whole         *)
(* numbers: a valid record has rows 1..12 and no missing value; means and  *)
(* the threshold are compared times 12.                                    *)

Valid == /\ DOMAIN data = Months
         /\ \A m \in Months : ~IsNaN(data[m].tavg) /\ ~IsNaN(data[m].prcp)

Returned == pc = "done" /\ result.status = "returned"

Classified == Returned /\ Valid

Temp(m) == data[m].tavg.n
Prcp(m) == data[m].prcp.n

RECURSIVE TotalOver(_, _)
TotalOver(f, S) ==
    IF S = {} THEN 0
    ELSE LET m == CHOOSE x \in S : TRUE IN f[m] + TotalOver(f, S \ {m})

Temps == [m \in Months |-> Temp(m)]
Prcps == [m \in Months |-> Prcp(m)]

Lowest(f, S) == CHOOSE v \in {f[m] : m \in S} : \A m \in S : v <= f[m]
Highest(f, S) == CHOOSE v \in {f[m] : m \in S} : \A m \in S : v >= f[m]

MinTemp == Lowest(Temps, Months)
MaxTemp == Highest(Temps, Months)
TotalTemp == TotalOver(Temps, Months)
YearlyPrcp == TotalOver(Prcps, Months)
MinPrcp == Lowest(Prcps, Months)
WarmMonths == Cardinality({m \in Months : Temp(m) > 10})

AprToSep == {4, 5, 6, 7, 8, 9}
OctToMar == {1, 2, 3, 10, 11, 12}

\* the warmer of the two sets; Apr-Sep when the means are equal
Summer == IF TotalOver(Temps, OctToMar) > TotalOver(Temps, AprToSep)
          THEN OctToMar ELSE AprToSep
Winter == Months \ Summer

SummerPrcp == TotalOver(Prcps, Summer)
WinterPrcp == TotalOver(Prcps, Winter)

\* the adjustment of the threshold, and 12 times the threshold
Adjustment ==
    IF 10 * SummerPrcp >= 7 * YearlyPrcp THEN 280
    ELSE IF 10 * WinterPrcp < 7 * YearlyPrcp THEN 140
    ELSE 0
Threshold12 == 20 * TotalTemp + 12 * Adjustment

IsPolar == MaxTemp < 10
IsArid == 12 * YearlyPrcp < Threshold12
IsTropical == MinTemp >= 18
Fallback == ~IsPolar /\ ~IsArid /\ ~IsTropical

Isotherm == IF args = {} THEN 0 ELSE (CHOOSE a \in args : TRUE)[2]

Code == result.koppen
Primary == Code[1]
Secondary == Code[2]

\* C1: a valid record gets exactly one primary letter of A..E, the first match of
\* E (max < 10), B (yearly precipitation < threshold), A (min >= 18), else C or D.
C1_PrimaryByPriority ==
    Classified =>
        /\ Len(Code) >= 1
        /\ Primary \in {"A", "B", "C", "D", "E"}
        /\ IF IsPolar THEN Primary = "E"
           ELSE IF IsArid THEN Primary = "B"
           ELSE IF IsTropical THEN Primary = "A"
           ELSE Primary \in {"C", "D"}

\* a record that is polar, arid and of no other type at once: the order decides
C1_Witness ==
    Classified /\ IsPolar /\ IsArid /\ Primary = "E"

\* C2: a record without month 7, or with a missing precipitation value, makes the
\* call fail with IncompleteDataError instead of returning a code.
C2_IncompleteDataError ==
    (/\ pc = "done"
     /\ DOMAIN locals # {}
     /\ \/ 7 \notin DOMAIN data
        \/ \E m \in DOMAIN data : IsNaN(data[m].prcp))
    => /\ result.status = "raised"
       /\ result.error = "IncompleteDataError"

\* C3: summer is the warmer of Apr-Sep and Oct-Mar, Apr-Sep on a tie, winter is
\* the other set, and the seasonal sums and the driest and wettest months of each
\* season are taken over the sets so chosen.
C3_SeasonsByWarmerSet ==
    Classified =>
        /\ locals.summer_months = Summer
        /\ locals.winter_months = Winter
        /\ locals.summer_prcp = Num(SummerPrcp)
        /\ locals.winter_prcp = Num(WinterPrcp)
        /\ Fallback =>
             /\ locals.driest_summer_month = Num(Lowest(Prcps, Summer))
             /\ locals.wettest_summer_month = Num(Highest(Prcps, Summer))
             /\ locals.driest_winter_month = Num(Lowest(Prcps, Winter))
             /\ locals.wettest_winter_month = Num(Highest(Prcps, Winter))

\* a temperate record whose Oct-Mar mean is strictly higher, with seasons that
\* differ in every seasonal quantity
C3_Witness ==
    /\ Classified /\ Fallback
    /\ TotalOver(Temps, OctToMar) > TotalOver(Temps, AprToSep)
    /\ locals.summer_months = OctToMar
    /\ locals.summer_prcp # locals.winter_prcp
    /\ locals.driest_summer_month # locals.driest_winter_month
    /\ locals.wettest_summer_month # locals.wettest_winter_month

\* C4: the threshold is 20 x the mean temperature plus exactly one of +280 (summer
\* precipitation >= 70% of the yearly), +140 (else, winter < 70%), +0 (else), also
\* when the yearly precipitation is 0.
C4_ThresholdAdjustment ==
    Classified =>
        /\ result.precipitation_threshold.d > 0
        /\ 12 * result.precipitation_threshold.n
              = Threshold12 * result.precipitation_threshold.d

\* a record whose winter precipitation is exactly 70% of the yearly: no adjustment
C4_Witness ==
    /\ Classified
    /\ YearlyPrcp > 0
    /\ 10 * WinterPrcp = 7 * YearlyPrcp
    /\ 12 * result.precipitation_threshold.n
          = 20 * TotalTemp * result.precipitation_threshold.d

\* C5: max < 10 gives exactly "ET" (max >= 0) or "EF" (max < 0) whatever the
\* precipitation, max = 10 is not polar, and twelve months at -10 give "EF".
C5_PolarStrict ==
    Classified =>
        /\ MaxTemp < 10 => Code = (IF MaxTemp >= 0 THEN <<"E", "T">> ELSE <<"E", "F">>)
        /\ MaxTemp = 10 => Primary # "E"
        /\ (\A m \in Months : Temp(m) = -10) => Code = <<"E", "F">>

\* twelve months at -10 with rain in every month
C5_Witness ==
    /\ Classified
    /\ \A m \in Months : Temp(m) = -10 /\ Prcp(m) > 0
    /\ Code = <<"E", "F">>

\* C6: in the fallback the primary letter is "C" if min >= isotherm, else "D";
\* the isotherm is 0 when the caller gives none.
C6_IsothermInclusive ==
    Classified /\ Fallback =>
        Primary = (IF MinTemp >= Isotherm THEN "C" ELSE "D")

\* min = -3 and isotherm = -3: the boundary itself is "C"
C6_Witness ==
    /\ Classified /\ Fallback
    /\ MinTemp = -3
    /\ args = {<<"isotherm", -3>>}
    /\ Primary = "C"

\* C7: a B code is B, then W if yearly < threshold / 2 else S, then h if the mean
\* temperature >= 18 else k.
C7_AridLabels ==
    Classified /\ Primary = "B" =>
        Code = << "B",
                  IF 2 * 12 * YearlyPrcp < Threshold12 THEN "W" ELSE "S",
                  IF TotalTemp >= 18 * 12 THEN "h" ELSE "k" >>

\* yearly precipitation exactly half the threshold, mean temperature exactly 18
C7_Witness ==
    /\ Classified
    /\ 2 * 12 * YearlyPrcp = Threshold12
    /\ TotalTemp = 18 * 12
    /\ Code = <<"B", "S", "h">>

\* C8: an A code is A, then f if the driest month >= 60, else m if it is
\* >= 100 - 0.04 x yearly, else w, and nothing more; twelve months at 25 degrees
\* and 100 mm give "Af".
C8_TropicalLabels ==
    Classified =>
        /\ Primary = "A" =>
             Code = << "A",
                       IF MinPrcp >= 60 THEN "f"
                       ELSE IF 25 * MinPrcp >= 2500 - YearlyPrcp THEN "m"
                       ELSE "w" >>
        /\ (\A m \in Months : Temp(m) = 25 /\ Prcp(m) = 100) => Code = <<"A", "f">>

\* a driest month exactly on the monsoon boundary
C8_Witness ==
    /\ Classified
    /\ MinPrcp < 60
    /\ 25 * MinPrcp = 2500 - YearlyPrcp
    /\ Code = <<"A", "m">>

DryWinter == Highest(Prcps, Summer) >= 10 * Lowest(Prcps, Winter)
DrySummer(limit) ==
    /\ Highest(Prcps, Winter) >= 3 * Lowest(Prcps, Summer)
    /\ Lowest(Prcps, Summer) < limit

\* C9: a C or D code has second letter w if wettest summer >= 10 x driest winter;
\* else s if wettest winter >= 3 x driest summer and driest summer < 40 (C) or
\* < 30 (D); else f.
C9_DrySeasonLabel ==
    Classified /\ Primary \in {"C", "D"} =>
        /\ Len(Code) >= 2
        /\ Secondary = (IF DryWinter THEN "w"
                        ELSE IF DrySummer(IF Primary = "C" THEN 40 ELSE 30) THEN "s"
                        ELSE "f")

\* both tests hold and w wins
C9_Witness ==
    /\ Classified /\ Primary = "D"
    /\ DryWinter /\ DrySummer(30)
    /\ YearlyPrcp > 0
    /\ Secondary = "w"

\* C10: a C or D code has third letter a (at least 4 months > 10 and max >= 22),
\* b (at least 4 such months and max < 22), d (fewer and min <= -38) or c (fewer).
C10_TemperatureLabel ==
    Classified /\ Primary \in {"C", "D"} =>
        /\ Len(Code) = 3
        /\ Code[3] = (IF WarmMonths >= 4
                      THEN (IF MaxTemp >= 22 THEN "a" ELSE "b")
                      ELSE IF MinTemp <= -38 THEN "d" ELSE "c")

\* three months above 10, a hot one among them, and a coldest month at -38
C10_Witness ==
    /\ Classified /\ Primary = "D"
    /\ WarmMonths = 3 /\ MaxTemp >= 22 /\ MinTemp = -38
    /\ Code[3] = "d"

\* C11: whichever branch is taken, the result carries the minimum, the mean and
\* the maximum of the 12 temperatures, the sum of the 12 precipitation values, and
\* the threshold of the arid test after its seasonal adjustment.
C11_ReturnedStatistics ==
    Classified =>
        /\ result.min_monthly_temp = Num(MinTemp)
        /\ result.max_monthly_temp = Num(MaxTemp)
        /\ result.avg_monthly_temp.d > 0
        /\ 12 * result.avg_monthly_temp.n = TotalTemp * result.avg_monthly_temp.d
        /\ result.yearly_precipitation = Num(YearlyPrcp)
        /\ result.precipitation_threshold.d > 0
        /\ 12 * result.precipitation_threshold.n
              = Threshold12 * result.precipitation_threshold.d
        /\ ~IsPolar =>
             (Primary = "B" <=> Lt(Num(YearlyPrcp), result.precipitation_threshold))

\* a temperate record with distinct minimum, mean and maximum and a +280 threshold
C11_Witness ==
    /\ Classified /\ Primary = "C"
    /\ MinTemp < MaxTemp
    /\ YearlyPrcp > 0 /\ Adjustment = 280
    /\ result.yearly_precipitation = Num(YearlyPrcp)

-----------------------------------------------------------------------------
(* The properties of the map application, on the states of AppSpec.        *)

MarkerKeys == {STATIONS_KEY, CUSTOM_DATE_RANGE_STATIONS_KEY} \cap DOMAIN session_state

ActiveMarkers == session_state[station_key_to_use]
ReadData == session_state[data_key_to_use]

FullNormals(rows) ==
    /\ Cardinality(DOMAIN rows) = 12
    /\ \A m \in DOMAIN rows : ~IsNaN(rows[m].tavg) /\ ~IsNaN(rows[m].prcp)

\* C12: a run of update_markers classifies a fetched station exactly when its
\* normals have 12 rows and no missing tavg or prcp; any other station with
\* normals has them stored and gets a marker of the default colour whose popup
\* has no Koppen line.
C12_ClassifiedOnlyWhenFull ==
    /\ classifier_calls \subseteq DOMAIN fetched
    /\ \A s \in DOMAIN fetched :
         fetched[s] = "returned" =>
            /\ location(s) \in DOMAIN ReadData
            /\ s \in classifier_calls <=> FullNormals(ReadData[location(s)].rows)
            /\ s \notin classifier_calls =>
                 /\ s \in DOMAIN ActiveMarkers
                 /\ ActiveMarkers[s].location = location(s)
                 /\ ActiveMarkers[s].background_color = "#CCCCCC"
                 /\ ActiveMarkers[s].popup = <<station_row(s).name>>

\* twelve rows with one missing value: stored, not classified, default marker
C12_Witness ==
    \E s \in DOMAIN fetched :
        /\ fetched[s] = "returned"
        /\ s \notin classifier_calls
        /\ Cardinality(DOMAIN ReadData[location(s)].rows) = 12
        /\ ActiveMarkers[s].background_color = "#CCCCCC"

\* the entry of a data dictionary at a location, NoData when there is none
EntryAt(state, key, loc) ==
    IF key \in DOMAIN state /\ loc \in DOMAIN state[key] THEN state[key][loc]
    ELSE NoData

Failed == {"empty", "raised"}

\* C13: unless Clear Map empties it, a station dictionary keeps every entry
\* unchanged from run to run and no call of update_markers on it fetches a
\* station that is already a key; a station whose fetch returned nothing or
\* raised is recorded with None, is not on the map, and the call writes no
\* entry for it in data_array.
C13_FetchedOnce ==
    [][ /\ \A k \in MarkerKeys :
             ~(clear_map' /\ station_key_to_use' = k) =>
                 \A s \in DOMAIN session_state[k] :
                     /\ s \in DOMAIN session_state'[k]
                     /\ session_state'[k][s] = session_state[k][s]
                     /\ station_key_to_use' = k => s \notin DOMAIN fetched'
        /\ \A s \in DOMAIN fetched' :
             fetched'[s] \in Failed =>
                 /\ session_state'[station_key_to_use'][s] = NoMarker
                 /\ \A marker \in fg' :
                        marker # NoMarker /\ marker.location # location(s)
                 /\ EntryAt(session_state', data_key_to_use', location(s))
                        \in {NoData, EntryAt(session_state, data_key_to_use',
                                             location(s))}
      ]_vars

\* a failed fetch in the custom date range recorded with None, while the
\* station's marker of the other mode is kept
C13_Witness ==
    \E s \in DOMAIN fetched :
        /\ fetched[s] \in Failed
        /\ station_key_to_use = CUSTOM_DATE_RANGE_STATIONS_KEY
        /\ ActiveMarkers[s] = NoMarker
        /\ fg = {}
        /\ s \in DOMAIN session_state[STATIONS_KEY]
        /\ session_state[STATIONS_KEY][s] # NoMarker

\* C14: with the default isotherm 0, every code the classifier returns for a
\* valid 12-month record is a key of KOPPEN_COLOURS, so the colour lookup of
\* update_markers cannot fail.
C14_CodeHasColour ==
    (Classified /\ Isotherm = 0) => Code \in DOMAIN KOPPEN_COLOURS

\* C15: after every run, each marker (not None) of the station dictionary of
\* the active mode has an entry at its location in the data dictionary that
\* render_map reads.
C15_MarkersHaveData ==
    station_key_to_use \in DOMAIN session_state =>
        \A s \in DOMAIN ActiveMarkers :
            ActiveMarkers[s] # NoMarker =>
                ActiveMarkers[s].location \in DOMAIN ReadData

\* the fetch function of the mode a station dictionary belongs to
FetchOf(station_key) ==
    IF station_key = CUSTOM_DATE_RANGE_STATIONS_KEY
    THEN "get_monthly_as_normal" ELSE "get_latest_normal_by_station_id"

\* C16: the frame shown for a clicked marker of the map was fetched in the
\* mode of the markers on the map; data loaded in the other mode never takes
\* its place.
C16_ShownFrameOfSameMode ==
    (/\ MAP_KEY \in DOMAIN session_state
     /\ \E marker \in fg :
            marker.location = session_state[MAP_KEY].last_object_clicked
     /\ shown.source \notin {"None", "KeyError"})
        => shown.source = FetchOf(station_key_to_use)

====
